---- MODULE Spec2Model ----
(***************************************************************************)
(* Model of host_command_executor.py: the interactive host shell           *)
(* (interactive_host_shell), the execution bridge (execute_host_command)   *)
(* and the path arithmetic the shell uses (os.path.isabs, os.path.join,    *)
(* os.path.normpath, str.strip, str.lower, str.startswith).                *)
(*                                                                         *)
(* Text is modelled as a sequence of one-character strings, so that        *)
(* trimming, prefix tests and path normalisation are computed character    *)
(* by character as the Python code computes them.                          *)
(***************************************************************************)
EXTENDS Integers, Sequences, FiniteSets, TLC

VARIABLES pc, username, working_dir, command, new_dir, cd_result,
          bridge, out, retval, pre_wd, prior_abs, lookup, user_shell

vars == <<pc, username, working_dir, command, new_dir, cd_result,
          bridge, out, retval, pre_wd, prior_abs, lookup, user_shell>>

\* what the start of the session fixes: the outcome of the identity lookup
\* and the shell derived from it
startup == <<lookup, user_shell>>

(***************************************************************************)
(* Bounds of the model.                                                    *)
(***************************************************************************)
\* longest navigation target text enumerated over PathChars
MaxTargetLen == 2
\* longest working directory the session is driven to
MaxDirLen == 4
\* helper exit statuses range over 0..MaxExitCode
MaxExitCode == 2
\* longest raw line enumerated over LineChars for classification
MaxLineLen == 5
\* longest output of the identity lookup enumerated over StdoutChars
MaxStdoutLen == 7

(***************************************************************************)
(* Text helpers: str.strip, str.lower, str.startswith.                     *)
(***************************************************************************)
IsSpace(c) == c \in {" ", "\t"}

RECURSIVE LStrip(_)
LStrip(s) ==
    IF s = <<>> THEN s
    ELSE IF IsSpace(Head(s)) THEN LStrip(Tail(s)) ELSE s

RECURSIVE RStrip(_)
RStrip(s) ==
    IF s = <<>> THEN s
    ELSE IF IsSpace(s[Len(s)]) THEN RStrip(SubSeq(s, 1, Len(s) - 1)) ELSE s

\* str.strip(): leading and trailing whitespace removed
Strip(s) == RStrip(LStrip(s))

LowerChar(c) ==
    CASE c = "C" -> "c"
      [] c = "D" -> "d"
      [] c = "E" -> "e"
      [] c = "X" -> "x"
      [] c = "I" -> "i"
      [] c = "T" -> "t"
      [] c = "Q" -> "q"
      [] c = "U" -> "u"
      [] OTHER -> c

\* str.lower()
Lower(s) == IF s = <<>> THEN <<>> ELSE [i \in 1..Len(s) |-> LowerChar(s[i])]

\* str.startswith(p)
StartsWith(s, p) == Len(s) >= Len(p) /\ SubSeq(s, 1, Len(p)) = p

\* s[n:]
DropFirst(s, n) == IF Len(s) <= n THEN <<>> ELSE SubSeq(s, n + 1, Len(s))

(***************************************************************************)
(* posixpath: isabs, join, normpath, dirname.                              *)
(***************************************************************************)
Slash == <<"/">>

\* os.path.isabs(p): p starts with "/"
IsAbs(p) == StartsWith(p, Slash)

\* os.path.join(a, b)
Join(a, b) ==
    IF StartsWith(b, Slash) THEN b
    ELSE IF a = <<>> \/ a[Len(a)] = "/" THEN a \o b
    ELSE a \o Slash \o b

\* p.split("/")
RECURSIVE SplitAcc(_, _)
SplitAcc(p, cur) ==
    IF p = <<>> THEN <<cur>>
    ELSE IF Head(p) = "/" THEN <<cur>> \o SplitAcc(Tail(p), <<>>)
    ELSE SplitAcc(Tail(p), Append(cur, Head(p)))

Split(p) == SplitAcc(p, <<>>)

\* "/".join(comps)
RECURSIVE JoinComps(_)
JoinComps(comps) ==
    IF comps = <<>> THEN <<>>
    ELSE IF Len(comps) = 1 THEN comps[1]
    ELSE comps[1] \o Slash \o JoinComps(Tail(comps))

Dot == <<".">>
DotDot == <<".", ".">>

\* number of leading slashes normpath keeps: 0, 1, or exactly 2 for "//x"
InitialSlashes(p) ==
    IF ~StartsWith(p, Slash) THEN 0
    ELSE IF StartsWith(p, <<"/", "/">>) /\ ~StartsWith(p, <<"/", "/", "/">>) THEN 2
    ELSE 1

\* the component loop of normpath
RECURSIVE NormComps(_, _, _)
NormComps(comps, acc, initial) ==
    IF comps = <<>> THEN acc
    ELSE LET comp == Head(comps)
             rest == Tail(comps)
         IN  IF comp = <<>> \/ comp = Dot THEN NormComps(rest, acc, initial)
             ELSE IF \/ comp # DotDot
                     \/ (initial = 0 /\ acc = <<>>)
                     \/ (acc # <<>> /\ acc[Len(acc)] = DotDot)
                  THEN NormComps(rest, Append(acc, comp), initial)
             ELSE IF acc # <<>>
                  THEN NormComps(rest, SubSeq(acc, 1, Len(acc) - 1), initial)
             ELSE NormComps(rest, acc, initial)

Slashes(n) == [i \in 1..n |-> "/"]

\* os.path.normpath(p)
Normpath(p) ==
    IF p = <<>> THEN Dot
    ELSE LET initial == InitialSlashes(p)
             body == JoinComps(NormComps(Split(p), <<>>, initial))
             res == IF initial > 0 THEN Slashes(initial) \o body ELSE body
         IN  IF res = <<>> THEN Dot ELSE res

\* os.path.dirname(p)
RECURSIVE LastSlash(_)
LastSlash(p) ==
    IF p = <<>> THEN 0
    ELSE IF p[Len(p)] = "/" THEN Len(p)
    ELSE LastSlash(SubSeq(p, 1, Len(p) - 1))

RECURSIVE RStripSlash(_)
RStripSlash(p) ==
    IF p = <<>> THEN p
    ELSE IF p[Len(p)] = "/" THEN RStripSlash(SubSeq(p, 1, Len(p) - 1)) ELSE p

Dirname(p) ==
    LET head == SubSeq(p, 1, LastSlash(p))
    IN  IF head # <<>> /\ head # Slashes(Len(head)) THEN RStripSlash(head) ELSE head

(***************************************************************************)
(* Values that stand for "no value".                                       *)
(***************************************************************************)
\* a local variable that has not been assigned yet
Unassigned == <<"unassigned">>
\* username=None, or an environment variable that is not set
NoName == "<none>"
\* no execute_host_command call is in flight
NoCall == [command |-> <<>>, username |-> NoName, working_dir |-> <<>>, caller |-> "none"]

(***************************************************************************)
(* Inputs.                                                                 *)
(***************************************************************************)
PathChars == {"/", ".", "a"}

\* all texts over cs with length 1..n
TextsUpTo(cs, n) == UNION {[1..k -> cs] : k \in 1..n}

\* navigation target texts
Targets ==
    TextsUpTo(PathChars, MaxTargetLen)
        \cup {<<"/", "a", "/", "b">>, <<"/", "a", "/", ".", ".">>, <<"t", "m", "p">>}

CdPrefix == <<"c", "d", " ">>
ExitWord == <<"e", "x", "i", "t">>
QuitWord == <<"q", "u", "i", "t">>

\* lines the operator types in a session
Lines ==
    {CdPrefix \o t : t \in Targets}
        \cup { <<>>,
               ExitWord, <<" ", "Q", "U", "I", "T", "\t">>,
               <<"e", "x", "i", "t", "x">>,
               <<" ", "c", "d", " ", " ">>,
               <<"c", "d", "\t", "a">>,
               <<"C", "D", " ", "a">>,
               <<"\t", "c", "d", " ", "\t", "/", "a", "\t">>,
               <<"e", "c", "h", "o", " ", "h", "i">> }

LineChars == {" ", "c", "d", "D", "e", "E", "x", "i", "t"}

\* further raw lines: quit, tabs, absolute targets
MoreLines ==
    { QuitWord, <<"Q", "u", "i", "t", " ">>, <<"q", "u", "i", "t", "s">>,
      <<"c", "d">>, <<"c", "d", "\t">>, <<"C", "d", " ", "/", "a">>,
      <<"c", "d", " ", "/", "a">>, <<" ", "c", "d", " ", " ", "a", " ">>,
      <<" ", "l", "s", " ">> }

\* every raw line over LineChars, for classification
AllLines == TextsUpTo(LineChars, MaxLineLen) \cup MoreLines \cup Lines

ExitCodes == 0..MaxExitCode

\* values of the HOST_USER and USER environment variables
HostUserValues == {NoName}
UserValues == {NoName, "carol"}

(***************************************************************************)
(* get_user_shell                                                          *)
(***************************************************************************)
\* a printed line: its stream, its fixed text, its interpolated value
Msg(stream, text, arg) == <<stream, text, arg>>

\* the shell returned when the lookup gives none
DefaultShell == <<"/", "b", "i", "n", "/", "b", "a", "s", "h">>

\* a passwd record has at least this many fields; the shell is the last
PasswdFields == 7

\* text.split(sep)
RECURSIVE SplitOnAcc(_, _, _)
SplitOnAcc(t, sep, cur) ==
    IF t = <<>> THEN <<cur>>
    ELSE IF Head(t) = sep THEN <<cur>> \o SplitOnAcc(Tail(t), sep, <<>>)
    ELSE SplitOnAcc(Tail(t), sep, Append(cur, Head(t)))

SplitOn(t, sep) == SplitOnAcc(t, sep, <<>>)

StdoutChars == {":", "s", " "}

\* outcomes of `getent passwd <username>` run with check=True:
\* "absent" (non-zero exit, CalledProcessError), "unavailable" (the tool
\* cannot be started, OSError), "ok" (exit 0 with the given output)
Lookups ==
    { [kind |-> k, stdout |-> <<>>] : k \in {"absent", "unavailable"} }
        \cup { [kind |-> "ok", stdout |-> t] :
                  t \in TextsUpTo(StdoutChars, MaxStdoutLen) \cup {<<>>} }

WarningMsg == Msg("stderr", "Warning: Could not determine shell for user ", <<>>)

\* variant: the field before the shell is returned
GetUserShell_HomeField(lk) ==
    IF lk.kind # "ok" THEN [shell |-> DefaultShell, printed |-> <<WarningMsg>>]
    ELSE LET user_info == SplitOn(Strip(lk.stdout), ":")
         IN  IF Len(user_info) >= PasswdFields
             THEN [shell |-> user_info[PasswdFields - 1], printed |-> <<>>]
             ELSE [shell |-> DefaultShell, printed |-> <<>>]

\* the shell get_user_shell returns and what it prints
GetUserShell(lk) ==
    IF lk.kind # "ok" THEN [shell |-> DefaultShell, printed |-> <<WarningMsg>>]
    ELSE LET user_info == SplitOn(Strip(lk.stdout), ":")
         IN  IF Len(user_info) >= PasswdFields
             THEN [shell |-> user_info[PasswdFields], printed |-> <<>>]
             ELSE [shell |-> DefaultShell, printed |-> <<>>]

(***************************************************************************)
(* execute_host_command                                                    *)
(***************************************************************************)
\* the code returned when the helper cannot be launched
LaunchFailureCode == 1

\* username fallback: argument, then HOST_USER, then USER, then "root"
ResolveUsername(arg, hostUser, user) ==
    IF arg \notin {NoName, ""} THEN arg
    ELSE IF hostUser # NoName THEN hostUser
    ELSE IF user # NoName THEN user
    ELSE "root"

\* the instruction handed to sh -c: "cd " + working_dir + " && " + command
Compose(cmd, wd) ==
    CdPrefix \o wd \o <<" ", "&", "&", " ">> \o cmd

ExecutingMsg(cmd, wd) == Msg("stdout", ">>>> Executing ", Compose(cmd, wd))
\* variant: the status line does not interpolate the return code
ExecutedMsg_FixedCode(rc) ==
    Msg("stdout", "<<<< Command executed on host successfully with exit code ", <<0>>)

ExecutedMsg(rc) ==
    Msg("stdout", "<<<< Command executed on host successfully with exit code ", <<rc>>)
LaunchErrorMsg == Msg("stderr", "Error executing command on host: ", <<>>)

\* variant: the working directory argument is left out of the call
BridgeCall_AtRoot(cmd, user, wd, caller) ==
    [command |-> Compose(cmd, Slash), username |-> user, working_dir |-> Slash,
     caller |-> caller]

\* variant: the username argument is left out of the call
BridgeCall_AsRoot(cmd, user, wd, caller) ==
    [command |-> Compose(cmd, wd), username |-> "root", working_dir |-> wd,
     caller |-> caller]

\* the call as it stands while subprocess.run is blocked
BridgeCall(cmd, user, wd, caller) ==
    [command |-> Compose(cmd, wd), username |-> user, working_dir |-> wd,
     caller |-> caller]

(***************************************************************************)
(* interactive_host_shell: classification of a line                        *)
(***************************************************************************)
\* variant: the exit words compared without lower-casing
IsTerminate_CaseSensitive(l) == Strip(l) \in {ExitWord, QuitWord}

\* command.strip().lower() in ["exit", "quit"]
IsTerminate(l) == Lower(Strip(l)) \in {ExitWord, QuitWord}

\* variant: the cd prefix tested before the trailing whitespace is removed
IsNavigate_BeforeRStrip(l) == StartsWith(LStrip(l), CdPrefix)

\* variant: the cd prefix compared on the lower-cased text
IsNavigate_Lowered(l) == StartsWith(Lower(Strip(l)), CdPrefix)

\* command.strip().startswith("cd ")
IsNavigate(l) == StartsWith(Strip(l), CdPrefix)

\* command.strip()[3:].strip()
NavTarget(l) == Strip(DropFirst(Strip(l), 3))

\* which branch of the loop body a line takes
Classify(l) ==
    IF IsTerminate(l) THEN [kind |-> "Terminate", text |-> <<>>]
    ELSE IF IsNavigate(l) THEN [kind |-> "Navigate", text |-> NavTarget(l)]
    ELSE [kind |-> "Generic", text |-> l]

\* variant: the normalisation without the join
ResolveTarget_NoJoin(target, wd) ==
    IF ~IsAbs(target) THEN Normpath(target) ELSE target

\* variant: the join without the normalisation
ResolveTarget_NoNormpath(target, wd) ==
    IF ~IsAbs(target) THEN Join(wd, target) ELSE target

\* relative targets are joined to the working directory and normalised
ResolveTarget(target, wd) ==
    IF ~IsAbs(target) THEN Normpath(Join(wd, target)) ELSE target

\* variant: the candidate committed whatever the verification returned
NavigateOutcome_AlwaysCommit(code, wd, nd) == nd

\* the working directory after the verification call returned code
NavigateOutcome(code, wd, nd) == IF code = 0 THEN nd ELSE wd

\* variant: a failing generic command sends the session back to the root
DispatchOutcome_ResetOnFailure(code, wd) == IF code = 0 THEN wd ELSE Slash

\* the working directory after a generic command returned code
DispatchOutcome(code, wd) == wd

ChangedMsg(d) == Msg("stdout", "Changed directory to: ", d)
NotFoundMsg(d) == Msg("stdout", "Directory not found: ", d)
FarewellMsg == Msg("stdout", "Exiting host shell mode", <<>>)
EofFarewellMsg == Msg("stdout", "\nExiting host shell mode", <<>>)
HintMsg == Msg("stdout", "\nUse 'exit' to quit", <<>>)
LoopErrorMsg == Msg("stderr", "Error: ", <<>>)

\* the last line printed
LastOut == IF out = <<>> THEN Msg("none", "", <<>>) ELSE out[Len(out)]

(***************************************************************************)
(* State machine                                                           *)
(***************************************************************************)
Init ==
    /\ pc = "Reading"
    /\ \E h \in HostUserValues, u \in UserValues :
           username = ResolveUsername(NoName, h, u)
    /\ working_dir = Slash
    /\ command = Unassigned
    /\ new_dir = Unassigned
    /\ cd_result = <<>>
    /\ bridge = NoCall
    /\ out = <<>>
    /\ retval = <<>>
    /\ pre_wd = Slash
    /\ prior_abs = FALSE
    /\ lookup = [kind |-> "absent", stdout |-> <<>>]
    /\ user_shell = GetUserShell(lookup).shell

\* the session before get_user_shell is called, for every lookup outcome
StartupInit ==
    /\ pc = "Startup"
    /\ \E h \in HostUserValues, u \in UserValues :
           username = ResolveUsername(NoName, h, u)
    /\ working_dir = Slash
    /\ command = Unassigned
    /\ new_dir = Unassigned
    /\ cd_result = <<>>
    /\ bridge = NoCall
    /\ out = <<>>
    /\ retval = <<>>
    /\ pre_wd = Slash
    /\ prior_abs = FALSE
    /\ lookup \in Lookups
    /\ user_shell = Unassigned

\* user_shell = get_user_shell(username), then the banner and the prompt
ResolveShell ==
    /\ pc = "Startup"
    /\ user_shell' = GetUserShell(lookup).shell
    /\ out' = GetUserShell(lookup).printed
    /\ pc' = "Reading"
    /\ UNCHANGED <<username, working_dir, command, new_dir, cd_result,
                   bridge, retval, pre_wd, prior_abs, lookup>>

\* command, new_dir and cd_result are locals that every iteration writes
\* before it reads them.  The model keeps them after an iteration so that
\* the completed iteration can be observed, and forgets them at the next
\* event at the prompt.  pre_wd is the working directory shown in the prompt
\* of the current iteration; prior_abs records that the iteration before the
\* current one was a verified navigation to an absolute target.
Forget ==
    /\ command' = Unassigned
    /\ new_dir' = Unassigned
    /\ cd_result' = <<>>
    /\ pre_wd' = working_dir
    /\ prior_abs' = FALSE

\* input() returns the line l; the loop body runs up to its blocking call
ReadLine(l) ==
    /\ pc = "Reading"
    /\ command' = l
    /\ pre_wd' = working_dir
    /\ prior_abs' = (/\ LastOut = ChangedMsg(working_dir)
                     /\ IsAbs(NavTarget(command)))
    /\ cd_result' = <<>>
    /\ UNCHANGED <<username, working_dir, startup>>
    /\ LET intent == Classify(l)
       IN  CASE intent.kind = "Terminate" ->
                  /\ out' = <<FarewellMsg>>
                  /\ retval' = <<0>>
                  /\ pc' = "Terminated"
                  /\ new_dir' = Unassigned
                  /\ UNCHANGED bridge
             [] intent.kind = "Navigate" ->
                  /\ new_dir' = ResolveTarget(intent.text, working_dir)
                  /\ Len(new_dir') <= MaxDirLen
                  /\ bridge' = BridgeCall(CdPrefix \o new_dir', username,
                                          working_dir, "navigate")
                  /\ out' = <<ExecutingMsg(CdPrefix \o new_dir', working_dir)>>
                  /\ pc' = "Verifying"
                  /\ UNCHANGED retval
             [] intent.kind = "Generic" ->
                  /\ bridge' = BridgeCall(l, username, working_dir, "dispatch")
                  /\ out' = <<ExecutingMsg(l, working_dir)>>
                  /\ pc' = "Dispatching"
                  /\ new_dir' = Unassigned
                  /\ UNCHANGED retval

\* the loop body after execute_host_command has returned code
AfterBridge(code, msg) ==
    /\ pc \in {"Verifying", "Dispatching"}
    /\ pc' = "Reading"
    /\ bridge' = NoCall
    /\ IF pc = "Verifying"
       THEN /\ cd_result' = <<code>>
            /\ working_dir' = NavigateOutcome(code, working_dir, new_dir)
            /\ out' = out \o <<msg, IF code = 0 THEN ChangedMsg(working_dir')
                                     ELSE NotFoundMsg(new_dir)>>
       ELSE /\ cd_result' = cd_result
            /\ working_dir' = DispatchOutcome(code, working_dir)
            /\ out' = Append(out, msg)
    /\ UNCHANGED <<username, command, new_dir, retval, pre_wd, prior_abs,
                   startup>>

\* the helper ran and exited with status rc
ExecuteReturn(rc) == AfterBridge(rc, ExecutedMsg(rc))

\* variant: the handler of the launch failure returns 0
ExecuteLaunchFails_ReturnsZero == AfterBridge(0, LaunchErrorMsg)

\* subprocess.run raised: the helper could not be launched
ExecuteLaunchFails == AfterBridge(LaunchFailureCode, LaunchErrorMsg)

\* variant: the interrupt ends the loop
InterruptReading_Terminates ==
    /\ pc = "Reading"
    /\ out' = <<HintMsg>>
    /\ pc' = "Terminated"
    /\ retval' = <<1>>
    /\ Forget
    /\ UNCHANGED <<username, working_dir, bridge, startup>>

\* KeyboardInterrupt raised by input()
InterruptReading ==
    /\ pc = "Reading"
    /\ out' = <<HintMsg>>
    /\ Forget
    /\ UNCHANGED <<pc, username, working_dir, bridge, retval, startup>>

\* variant: the handler of the interrupt restarts the session at the root
InterruptInFlight_ResetsDir ==
    /\ pc \in {"Verifying", "Dispatching"}
    /\ pc' = "Reading"
    /\ bridge' = NoCall
    /\ out' = Append(out, HintMsg)
    /\ working_dir' = Slash
    /\ UNCHANGED <<username, command, new_dir, cd_result,
                   retval, pre_wd, prior_abs, startup>>

\* KeyboardInterrupt raised inside subprocess.run: it is not an Exception,
\* so it leaves execute_host_command and reaches the loop's handler
InterruptInFlight ==
    /\ pc \in {"Verifying", "Dispatching"}
    /\ pc' = "Reading"
    /\ bridge' = NoCall
    /\ out' = Append(out, HintMsg)
    /\ UNCHANGED <<username, working_dir, command, new_dir, cd_result,
                   retval, pre_wd, prior_abs, startup>>

\* variant: the candidate is committed before the interrupt is handled
InterruptAfterReturn_Commits(rc) ==
    /\ pc \in {"Verifying", "Dispatching"}
    /\ pc' = "Reading"
    /\ bridge' = NoCall
    /\ out' = out \o <<ExecutedMsg(rc), HintMsg>>
    /\ working_dir' = IF pc = "Verifying" /\ rc = 0 THEN new_dir ELSE working_dir
    /\ UNCHANGED <<username, command, new_dir, cd_result,
                   retval, pre_wd, prior_abs, startup>>

\* the helper exited with status rc and the status line was printed, then
\* KeyboardInterrupt was raised before the returned code was stored
InterruptAfterReturn(rc) ==
    /\ pc \in {"Verifying", "Dispatching"}
    /\ pc' = "Reading"
    /\ bridge' = NoCall
    /\ out' = out \o <<ExecutedMsg(rc), HintMsg>>
    /\ UNCHANGED <<username, working_dir, command, new_dir, cd_result,
                   retval, pre_wd, prior_abs, startup>>

\* variant: the loop has no handler for other exceptions
FailureInFlight_Crashes ==
    /\ pc \in {"Verifying", "Dispatching"}
    /\ pc' = "Terminated"
    /\ retval' = <<1>>
    /\ bridge' = NoCall
    /\ out' = out
    /\ UNCHANGED <<username, working_dir, command, new_dir, cd_result,
                   pre_wd, prior_abs, startup>>

\* an Exception leaves execute_host_command (the print of its own handler
\* fails) and is caught by the loop's last handler
FailureInFlight ==
    /\ pc \in {"Verifying", "Dispatching"}
    /\ pc' = "Reading"
    /\ bridge' = NoCall
    /\ out' = Append(out, LoopErrorMsg)
    /\ UNCHANGED <<username, working_dir, command, new_dir, cd_result,
                   retval, pre_wd, prior_abs, startup>>

\* EOFError raised by input()
EndOfInput ==
    /\ pc = "Reading"
    /\ out' = <<EofFarewellMsg>>
    /\ retval' = <<0>>
    /\ pc' = "Terminated"
    /\ Forget
    /\ UNCHANGED <<username, working_dir, bridge, startup>>

\* any other Exception raised by input()
UnexpectedFailure ==
    /\ pc = "Reading"
    /\ out' = <<LoopErrorMsg>>
    /\ Forget
    /\ UNCHANGED <<pc, username, working_dir, bridge, retval, startup>>

Next ==
    \/ (pc = "Reading" /\ \E l \in Lines : ReadLine(l))
    \/ \E rc \in ExitCodes : ExecuteReturn(rc)
    \/ ExecuteLaunchFails
    \/ InterruptReading
    \/ InterruptInFlight
    \/ \E rc \in ExitCodes : InterruptAfterReturn(rc)
    \/ FailureInFlight
    \/ EndOfInput
    \/ UnexpectedFailure

Spec == Init /\ [][Next]_vars

\* the loop body applied to every raw line, for classification
ClassifyNext == pc = "Reading" /\ \E l \in AllLines : ReadLine(l)

ClassifySpec == Init /\ [][ClassifyNext]_vars

\* the start of the session applied to every lookup outcome
StartupSpec == StartupInit /\ [][ResolveShell]_vars

(***************************************************************************)
(* Vocabulary of the properties                                            *)
(***************************************************************************)
\* the iteration that has just returned to the prompt was a navigation whose
\* verification call returned (cd_result is cleared when the next line is read)
NavigationReturned == pc = "Reading" /\ cd_result # <<>>
NavigationVerified == NavigationReturned /\ cd_result[1] = 0
NavigationRejected == NavigationReturned /\ cd_result[1] # 0

\* the segments of a path text
Segments(p) == {Split(p)[i] : i \in 1..Len(Split(p))}

\* absolute, unchanged by lexical normalisation, no "." or ".." segment
IsNormalizedAbsolute(p) ==
    /\ p # <<>>
    /\ Head(p) = "/"
    /\ Normpath(p) = p
    /\ Dot \notin Segments(p)
    /\ DotDot \notin Segments(p)

\* the printed lines
Printed == {out[i] : i \in 1..Len(out)}

\* the text between the first and the last character that is not whitespace
NonSpaceAt(l) == {i \in 1..Len(l) : l[i] \notin {" ", "\t"}}
Minimum(S) == CHOOSE x \in S : \A y \in S : x <= y
Maximum(S) == CHOOSE x \in S : \A y \in S : x >= y
Trimmed(l) ==
    IF NonSpaceAt(l) = {} THEN <<>>
    ELSE SubSeq(l, Minimum(NonSpaceAt(l)), Maximum(NonSpaceAt(l)))

\* t spells the lower-case word w in some letter case
CasePairs ==
    { <<"E", "e">>, <<"X", "x">>, <<"I", "i">>, <<"T", "t">>,
      <<"Q", "q">>, <<"U", "u">>, <<"C", "c">>, <<"D", "d">> }
SpellsIgnoringCase(t, w) ==
    /\ Len(t) = Len(w)
    /\ \A i \in 1..Len(w) : t[i] = w[i] \/ <<t[i], w[i]>> \in CasePairs

IsExitWord(l) ==
    \/ SpellsIgnoringCase(Trimmed(l), ExitWord)
    \/ SpellsIgnoringCase(Trimmed(l), QuitWord)

\* the trimmed text begins with the letters c, d in the given case rule and a space
HasCdPrefix(l, anyCase) ==
    LET t == Trimmed(l)
    IN  /\ Len(t) >= 3
        /\ IF anyCase THEN SpellsIgnoringCase(SubSeq(t, 1, 2), <<"c", "d">>)
                      ELSE SubSeq(t, 1, 2) = <<"c", "d">>
        /\ t[3] = " "

\* the trimmed remainder after the three characters of the prefix
RemainderAfterPrefix(l) == Trimmed(SubSeq(Trimmed(l), 4, Len(Trimmed(l))))

\* what the loop did with the line it read, as seen in its state
ObservedTerminate ==
    pc = "Terminated" /\ bridge = NoCall /\ out = <<FarewellMsg>>
ObservedNavigate(target) ==
    /\ pc = "Verifying"
    /\ bridge.caller = "navigate"
    /\ new_dir = (IF Head(target) = "/" THEN target
                  ELSE Normpath(Join(pre_wd, target)))
ObservedGeneric(text) ==
    /\ pc = "Dispatching"
    /\ bridge.caller = "dispatch"
    /\ bridge.command = CdPrefix \o pre_wd \o <<" ", "&", "&", " ">> \o text

\* a line has been read and the loop is at the end of its classification
JustClassified == command # Unassigned /\ pc # "Reading"

(***************************************************************************)
(* Properties                                                              *)
(***************************************************************************)

\* C1: after `cd P` whose verification returned 0, the working directory is
\* the normalisation of P joined to the previous working directory when P is
\* relative, and the normalisation of P itself when P is absolute.
C1_VerifiedNavigationIsNormalized ==
    NavigationVerified =>
        LET P == NavTarget(command)
        IN  working_dir = (IF IsAbs(P) THEN Normpath(P)
                           ELSE Normpath(Join(pre_wd, P)))

\* C2: whenever the loop is at the prompt, the working directory is an
\* absolute, lexically normalised path without "." or ".." segments.
C2_WorkingDirAlwaysNormalized ==
    pc = "Reading" => IsNormalizedAbsolute(working_dir)

\* C3: when the verification call of a navigation returns a non-zero code
\* (the launch-failure code included), the step leaves working directory and
\* username as they were, prints "Directory not found" and goes back to the
\* prompt without returning.
C3_RejectedNavigationChangesNothing ==
    [][(pc = "Verifying" /\ cd_result' # <<>> /\ cd_result'[1] # 0) =>
          /\ working_dir' = working_dir
          /\ username' = username
          /\ out'[Len(out')] = NotFoundMsg(new_dir)
          /\ pc' = "Reading"
          /\ retval' = <<>>]_vars

C3_Witness ==
    /\ NavigationRejected
    /\ LastOut = NotFoundMsg(new_dir)
    /\ new_dir # working_dir
    /\ LaunchErrorMsg \in Printed

\* C4: a line that is neither navigation nor termination leaves the working
\* directory and the username unchanged, from the moment it is read to the
\* return of the bridge call, whatever code the call returns.
C4_GenericDispatchKeepsSession ==
    [][((pc = "Reading" /\ pc' = "Dispatching") \/ pc = "Dispatching") =>
          /\ working_dir' = working_dir
          /\ username' = username]_vars

C4_Witness ==
    /\ pc = "Reading"
    /\ command = <<"e", "c", "h", "o", " ", "h", "i">>
    /\ LastOut = ExecutedMsg(MaxExitCode)
    /\ working_dir # Slash
    /\ working_dir = pre_wd

\* C5: `cd .` with successful verification leaves the working directory
\* equal to its value before the call.
C5_CdDotIsIdempotent ==
    (NavigationVerified /\ NavTarget(command) = Dot) => working_dir = pre_wd

\* C6: an absolute navigation followed by `cd ..`, both verified, yields the
\* lexical parent of the absolute target; `cd /a/b` then `cd ..` yields /a.
C6_AbsoluteThenParent ==
    (NavigationVerified /\ prior_abs /\ NavTarget(command) = DotDot) =>
        /\ working_dir = Dirname(Normpath(pre_wd))
        /\ (pre_wd = <<"/", "a", "/", "b">> => working_dir = <<"/", "a">>)

C6_Witness ==
    /\ NavigationVerified
    /\ prior_abs
    /\ NavTarget(command) = DotDot
    /\ pre_wd = <<"/", "a", "/", "b">>
    /\ working_dir = <<"/", "a">>

\* C7 as stated: the trimmed, lower-cased text decides all three outcomes:
\* exit/quit terminates, a `cd ` prefix navigates to the trimmed remainder,
\* every other line is dispatched with its original text.
C7_ClassificationOnLoweredText ==
    JustClassified =>
        IF IsExitWord(command) THEN ObservedTerminate
        ELSE IF HasCdPrefix(command, TRUE)
             THEN ObservedNavigate(RemainderAfterPrefix(command))
        ELSE ObservedGeneric(command)

\* C7 amended: exit/quit is matched on the trimmed, lower-cased text; the
\* `cd ` prefix is matched on the trimmed text in lower case only; every
\* other line (the empty line and `CD x` included) is dispatched with its
\* original text.  Exactly one of the three outcomes happens.
C7_Classification ==
    JustClassified =>
        /\ IF IsExitWord(command) THEN ObservedTerminate
           ELSE IF HasCdPrefix(command, FALSE)
                THEN ObservedNavigate(RemainderAfterPrefix(command))
           ELSE ObservedGeneric(command)
        /\ pc \in {"Terminated", "Verifying", "Dispatching"}

C7_Witness ==
    /\ JustClassified
    /\ command = <<"c", "D", " ", "x">>
    /\ pc = "Dispatching"

\* C8: a line whose trimmed text is exit or quit in any letter case, and
\* end-of-input, each end the loop with status 0 and without a bridge call.
C8_TerminationIsCleanAndSilent ==
    /\ (command # Unassigned /\ IsExitWord(command)) =>
           (pc = "Terminated" /\ retval = <<0>> /\ bridge = NoCall
              /\ out = <<FarewellMsg>>)
    /\ (out = <<EofFarewellMsg>>) =>
           (pc = "Terminated" /\ retval = <<0>> /\ bridge = NoCall)
    /\ (pc = "Terminated") =>
           (retval = <<0>> /\ out \in {<<FarewellMsg>>, <<EofFarewellMsg>>})

C8_Witness ==
    /\ pc = "Terminated"
    /\ command = <<" ", "Q", "U", "I", "T", "\t">>
    /\ retval = <<0>>
    /\ working_dir # Slash

\* C9: an interrupt while the loop waits for input prints the hint and
\* leaves the loop at the prompt with the same username and working directory.
C9_InterruptAtPromptKeepsSession ==
    [][(pc = "Reading" /\ out' = <<HintMsg>>) =>
          /\ pc' = "Reading"
          /\ retval' = <<>>
          /\ username' = username
          /\ working_dir' = working_dir]_vars

C9_Witness ==
    pc = "Reading" /\ out = <<HintMsg>> /\ working_dir # Slash

\* C10: when the helper cannot be launched, the bridge returns the fixed
\* non-zero code 1 and the loop goes back to the prompt with username and
\* working directory unchanged.
C10_LaunchFailureIsLocal ==
    [][(pc \in {"Verifying", "Dispatching"} /\ LaunchErrorMsg \in Printed') =>
          /\ pc' = "Reading"
          /\ retval' = <<>>
          /\ username' = username
          /\ working_dir' = working_dir
          /\ (pc = "Verifying" => cd_result' = <<1>>)]_vars

C10_Witness ==
    /\ pc = "Reading"
    /\ out = <<ExecutingMsg(command, working_dir), LaunchErrorMsg>>
    /\ command = <<"e", "c", "h", "o", " ", "h", "i">>
    /\ working_dir # Slash

(***************************************************************************)
(* Vocabulary of the properties on calls, faults and the lookup            *)
(***************************************************************************)
InFlight == pc \in {"Verifying", "Dispatching"}

\* the iteration that returned to the prompt was cut short by a fault
Abandoned == LastOut \in {HintMsg, LoopErrorMsg}

\* a line other than exit/quit has been processed and the loop is back
LineProcessed == pc = "Reading" /\ command # Unassigned

AnnounceText == ">>>> Executing "
StatusText == "<<<< Command executed on host successfully with exit code "

\* how many printed lines announce a call, and how many report its result
Calls == Cardinality({i \in 1..Len(out) : out[i][2] = AnnounceText})
ResultLines ==
    Cardinality({i \in 1..Len(out) : out[i][2] = StatusText \/ out[i] = LaunchErrorMsg})

\* the command text the loop passes to the bridge for the line it read
PassedCommand ==
    IF HasCdPrefix(command, FALSE) THEN <<"c", "d", " ">> \o new_dir ELSE command

\* the instruction for passing cmd under directory wd
Instruction(cmd, wd) == <<"c", "d", " ">> \o wd \o <<" ", "&", "&", " ">> \o cmd

\* the fields of a record text, by the positions of its colons
ColonsAt(t) == {i \in 1..Len(t) : t[i] = ":"}
NthColon(t, n) ==
    IF n = 0 THEN 0
    ELSE IF n > Cardinality(ColonsAt(t)) THEN Len(t) + 1
    ELSE CHOOSE p \in ColonsAt(t) : Cardinality({q \in ColonsAt(t) : q <= p}) = n
FieldCount(t) == Cardinality(ColonsAt(t)) + 1
Field(t, n) == SubSeq(t, NthColon(t, n - 1) + 1, NthColon(t, n) - 1)

\* the lookup failed: no account, no tool, or a record with too few fields
LookupRaised == lookup.kind \in {"absent", "unavailable"}
RecordTooShort == lookup.kind = "ok" /\ FieldCount(Trimmed(lookup.stdout)) < 7
ShellResolved == pc = "Reading" /\ user_shell # Unassigned

C13_VerifyBeforeCommit ==
    [][/\ (pc' = "Verifying" =>
             /\ working_dir' = pre_wd'
             /\ bridge'.working_dir = pre_wd'
             /\ bridge'.command = Instruction(<<"c", "d", " ">> \o new_dir', pre_wd'))
       /\ (working_dir' # working_dir =>
             /\ pc = "Verifying"
             /\ cd_result' = <<0>>
             /\ working_dir' = new_dir)]_vars

C13_Witness ==
    /\ NavigationVerified
    /\ working_dir = new_dir
    /\ pre_wd # Slash
    /\ working_dir # pre_wd

C15_TwoBracketingLines ==
    (LineProcessed /\ ~Abandoned) =>
        /\ Len(out) >= 2
        /\ out[1] = Msg("stdout", AnnounceText, Instruction(PassedCommand, pre_wd))
        /\ out[2][2] = StatusText

\* C15 amended: every invocation prints the line announcing the instruction
\* before the helper is launched; when the helper ran, the second line
\* reports its exit status; when the helper could not be launched there is
\* no status line: an error line goes to the diagnostic stream and the code
\* is 1.
C15_AnnounceThenStatusOrError ==
    /\ InFlight =>
           out = <<Msg("stdout", AnnounceText, bridge.command)>>
    /\ (LineProcessed /\ ~Abandoned) =>
           /\ Len(out) >= 2
           /\ out[1] = Msg("stdout", AnnounceText, Instruction(PassedCommand, pre_wd))
           /\ \/ /\ out[2] = Msg("stderr", "Error executing command on host: ", <<>>)
                 /\ cd_result = (IF HasCdPrefix(command, FALSE) THEN <<1>> ELSE <<>>)
              \/ /\ out[2][1] = "stdout"
                 /\ out[2][2] = StatusText
                 /\ out[2][3] \in {<<c>> : c \in ExitCodes}
                 /\ cd_result = (IF HasCdPrefix(command, FALSE) THEN out[2][3] ELSE <<>>)

C15_Witness ==
    /\ LineProcessed
    /\ HasCdPrefix(command, FALSE)
    /\ Len(out) = 3
    /\ out[2] = ExecutedMsg(MaxExitCode)
    /\ cd_result = <<MaxExitCode>>

\* C16 as stated: on every failure of the lookup (no account, no tool, a
\* record with too few fields) get_user_shell prints a warning and returns
\* the default shell; on success it returns the shell field.
C16_WarnsOnEveryFailure ==
    ShellResolved =>
        IF LookupRaised \/ RecordTooShort
        THEN user_shell = DefaultShell /\ WarningMsg \in Printed
        ELSE user_shell = Field(Trimmed(lookup.stdout), 7)

\* C16 amended: get_user_shell never fails; when the lookup raises (no
\* account, no tool) it prints a warning and returns the default shell; when
\* the record has too few fields it returns the default shell without a
\* warning; otherwise it returns the seventh field of the record.
C16_DefaultShellOnFailure ==
    ShellResolved =>
        /\ LookupRaised =>
               (user_shell = DefaultShell /\ out = <<WarningMsg>>)
        /\ RecordTooShort =>
               (user_shell = DefaultShell /\ out = <<>>)
        /\ (~LookupRaised /\ ~RecordTooShort) =>
               (user_shell = Field(Trimmed(lookup.stdout), 7) /\ out = <<>>)

C16_Witness ==
    /\ ShellResolved
    /\ lookup.kind = "ok"
    /\ FieldCount(Trimmed(lookup.stdout)) = 7
    /\ user_shell = <<"s">>

\* C17: in every state the working directory is a non-empty text beginning
\* with "/", and the instruction of a call in flight changes into it.
C17_WorkingDirIsAbsolute ==
    /\ working_dir # <<>>
    /\ working_dir[1] = "/"
    /\ InFlight =>
           /\ Len(bridge.command) > Len(working_dir) + 3
           /\ SubSeq(bridge.command, 1, 4) = <<"c", "d", " ", "/">>
           /\ SubSeq(bridge.command, 4, Len(working_dir) + 3) = working_dir

C17_Witness ==
    /\ NavigationVerified
    /\ NavTarget(command)[1] # "/"
    /\ working_dir # pre_wd
    /\ pre_wd # Slash

\* C18: a line whose trimmed text is just `cd` is dispatched as a generic
\* command with its original text; a navigation never has an empty target;
\* reading the line leaves the working directory alone.
C18_BareCdIsGeneric ==
    JustClassified =>
        /\ Trimmed(command) = <<"c", "d">> => ObservedGeneric(command)
        /\ pc = "Verifying" =>
               (RemainderAfterPrefix(command) # <<>> /\ NavTarget(command) # <<>>)
        /\ working_dir = pre_wd

C18_Witness ==
    /\ JustClassified
    /\ command = <<" ", "c", "d", " ">>
    /\ pc = "Dispatching"

\* C19: when a navigation step ends without its verification result having
\* been stored and compared (an interrupt or an unexpected failure cut it
\* short), the working directory is the one of the prompt; it changes only
\* to a candidate whose verification returned 0.
C19_FaultBeforeCompareKeepsDir ==
    [][/\ (pc = "Verifying" /\ cd_result' = <<>>) =>
             /\ Abandoned'
             /\ pc' = "Reading"
             /\ working_dir' = working_dir
             /\ working_dir' = pre_wd
       /\ (pc = "Verifying" /\ working_dir' # pre_wd) =>
             (cd_result' = <<0>> /\ ~Abandoned')]_vars

C19_Witness ==
    /\ LineProcessed
    /\ HasCdPrefix(command, FALSE)
    /\ out = <<ExecutingMsg(PassedCommand, pre_wd), ExecutedMsg(0), HintMsg>>
    /\ working_dir = pre_wd
    /\ new_dir # working_dir
    /\ cd_result = <<>>

====
